---- MODULE Spec2Model ----
(***************************************************************************)
(* Model of statrs' IterStatistics<f64> (src/statistics/iter_statistics.rs)*)
(* abs_min, abs_max, mean, geometric_mean and harmonic_mean, each a fold   *)
(* over a forward-only iterator of f64.                                    *)
(*                                                                         *)
(* f64 values are modelled by class: not-a-number, the two infinities, the *)
(* two signed zeros, and non-zero finite values held as exact reduced      *)
(* rationals n/d.  The special-value rules of IEEE-754 (NaN contagion,     *)
(* inf - inf, 0/0, x/0, signed zeros, comparisons with NaN) are those of   *)
(* the hardware; finite arithmetic is exact (no rounding, overflow or      *)
(* underflow of finite results).  ln of a finite positive q is the real    *)
(* ln(q), kept symbolically as kind "ln" (value ln(n/d)/r), and exp of it  *)
(* is the real (n/d)^(1/r), kind "root".                                   *)
(***************************************************************************)
EXTENDS Integers, Sequences, FiniteSets

MaxLen == 3

-----------------------------------------------------------------------------
(* f64 values *)

RECURSIVE GCD(_, _)
GCD(a, b) ==
    IF b = 0 THEN a ELSE GCD(b, a % b)

IAbs(n) ==
    IF n < 0 THEN -n ELSE n

NaN ==
    [k |-> "nan", n |-> 0, d |-> 1, r |-> 1]

Inf(s) ==
    [k |-> "inf", n |-> s, d |-> 1, r |-> 1]

Zero(s) ==
    [k |-> "zero", n |-> s, d |-> 1, r |-> 1]

Fin(n, d) ==
    IF n = 0 THEN Zero(1)
    ELSE LET g == GCD(IAbs(n), d)
         IN  [k |-> "fin", n |-> n \div g, d |-> d \div g, r |-> 1]

LnOf(n, d) ==
    LET g == GCD(n, d)
    IN  IF n = d THEN Zero(1)
        ELSE [k |-> "ln", n |-> n \div g, d |-> d \div g, r |-> 1]

is_nan(x) ==
    x.k = "nan"

\* numerator of a zero or finite value
Num(x) ==
    IF x.k = "zero" THEN 0 ELSE x.n

\* sign of a value that is not NaN: -1 or 1 (the sign bit for zeros)
Sgn(x) ==
    CASE x.k \in {"inf", "zero"} -> x.n
      [] x.k \in {"fin", "root"} -> IF x.n < 0 THEN -1 ELSE 1
      [] x.k = "ln" -> IF x.n < x.d THEN -1 ELSE 1

abs(x) ==
    CASE x.k = "nan" -> NaN
      [] x.k = "inf" -> Inf(1)
      [] x.k = "zero" -> Zero(1)
      [] x.k = "fin" -> [x EXCEPT !.n = IAbs(x.n)]

\* a < b on f64: false when either side is NaN, -0.0 and 0.0 compare equal
Lt(a, b) ==
    IF is_nan(a) \/ is_nan(b) THEN FALSE
    ELSE IF a.k = "inf" THEN a.n = -1 /\ ~(b.k = "inf" /\ b.n = -1)
    ELSE IF b.k = "inf" THEN b.n = 1
    ELSE Num(a) * b.d < Num(b) * a.d

Gt(a, b) ==
    Lt(b, a)

Neg(x) ==
    CASE x.k = "nan" -> NaN
      [] x.k \in {"inf", "zero", "fin"} -> [x EXCEPT !.n = -x.n]

\* a + b on f64 (round to nearest: x + (-x) = +0.0, -0.0 + -0.0 = -0.0)
Add(a, b) ==
    CASE is_nan(a) \/ is_nan(b) -> NaN
      [] ~is_nan(a) /\ ~is_nan(b) /\ a.k = "inf" /\ b.k = "inf" ->
            IF a.n = b.n THEN a ELSE NaN
      [] ~is_nan(b) /\ a.k = "inf" /\ b.k # "inf" -> a
      [] ~is_nan(a) /\ a.k # "inf" /\ b.k = "inf" -> b
      [] a.k = "zero" /\ b.k = "zero" ->
            IF a.n = -1 /\ b.n = -1 THEN Zero(-1) ELSE Zero(1)
      [] a.k = "zero" /\ b.k \in {"fin", "ln"} -> b
      [] a.k \in {"fin", "ln"} /\ b.k = "zero" -> a
      [] a.k = "fin" /\ b.k = "fin" -> Fin(a.n * b.d + b.n * a.d, a.d * b.d)
      [] a.k = "ln" /\ b.k = "ln" -> LnOf(a.n * b.n, a.d * b.d)

Sub(a, b) ==
    Add(a, Neg(b))

\* a / b on f64
Div(a, b) ==
    CASE is_nan(a) \/ is_nan(b) -> NaN
      [] a.k = "inf" /\ b.k = "inf" -> NaN
      [] a.k = "zero" /\ b.k = "zero" -> NaN
      [] a.k \in {"inf", "fin", "ln"} /\ b.k = "zero" -> Inf(Sgn(a) * Sgn(b))
      [] a.k = "zero" /\ b.k \in {"inf", "fin"} -> Zero(Sgn(a) * Sgn(b))
      [] a.k = "inf" /\ b.k = "fin" -> Inf(Sgn(a) * Sgn(b))
      [] a.k \in {"fin", "ln"} /\ b.k = "inf" -> Zero(Sgn(a) * Sgn(b))
      [] a.k = "fin" /\ b.k = "fin" ->
            Fin(a.n * b.d * Sgn(b), a.d * IAbs(b.n))
      \* ln(q) / count, count a positive whole number
      [] a.k = "ln" /\ b.k = "fin" -> [a EXCEPT !.r = a.r * b.n]

\* mutant: the logarithm of the magnitude, defined below zero
ln_OfMagnitude(x) ==
    CASE x.k = "nan" -> NaN
      [] x.k = "zero" -> Inf(-1)
      [] x.k = "inf" -> Inf(1)
      [] x.k = "fin" -> LnOf(IAbs(x.n), x.d)

\* x.ln(): NaN below zero, -inf at both zeros, +inf at +inf
ln(x) ==
    CASE x.k = "nan" -> NaN
      [] x.k = "zero" -> Inf(-1)
      [] x.k = "inf" -> IF x.n = 1 THEN Inf(1) ELSE NaN
      [] x.k = "fin" -> IF x.n < 0 THEN NaN ELSE LnOf(x.n, x.d)

\* x.exp() of a NaN, an infinity, a zero or a symbolic logarithm
exp(x) ==
    CASE x.k = "nan" -> NaN
      [] x.k = "inf" -> IF x.n = 1 THEN Inf(1) ELSE Zero(1)
      [] x.k = "zero" -> Fin(1, 1)
      [] x.k = "ln" -> IF x.r = 1 THEN Fin(x.n, x.d)
                       ELSE [x EXCEPT !.k = "root"]

-----------------------------------------------------------------------------
(* the folds' closures and final expressions *)

\* mutant: the fold seeded with the signed first element
AbsMinInit_Signed(init) ==
    init

\* fold seed of abs_min: init.borrow().abs()
AbsMinInit(init) ==
    abs(init)

\* mutant: no is_nan override in the closure
AbsMinFold_NoNaNCheck(a, x) ==
    IF Lt(x, a) THEN x ELSE a

\* |acc, x| if x < acc || x.is_nan() { x } else { acc }
AbsMinFold(a, x) ==
    IF Lt(x, a) \/ is_nan(x) THEN x ELSE a

\* mutant: the fold seeded with the signed first element
AbsMaxInit_Signed(init) ==
    init

\* fold seed of abs_max: init.borrow().abs()
AbsMaxInit(init) ==
    abs(init)

\* |acc, x| if x > acc || x.is_nan() { x } else { acc }
AbsMaxFold(a, x) ==
    IF Gt(x, a) \/ is_nan(x) THEN x ELSE a

\* mutant: the update adds x / count instead of the scaled deviation
MeanUpdate_NoDeviation(m, x, c) ==
    Add(m, Div(x, c))

\* mean += (x.borrow() - mean) / count, count already incremented
MeanUpdate(m, x, c) ==
    Add(m, Div(Sub(x, m), c))

\* mutant: no emptiness check on return
MeanResult_NoEmptyCheck(c, m) ==
    m

\* if count > 0.0 { mean } else { f64::NAN }
MeanResult(c, m) ==
    IF Gt(c, Zero(1)) THEN m ELSE NaN

\* sum += x.borrow().ln()
GeometricMeanUpdate(s, x) ==
    Add(s, ln(x))

\* if count > 0.0 { (sum / count).exp() } else { f64::NAN }
GeometricMeanResult(c, s) ==
    IF Gt(c, Zero(1)) THEN exp(Div(s, c)) ELSE NaN

\* mutant: the negativity check never fires
HarmonicMeanNegative_Never(val) ==
    FALSE

\* if val < 0f64 { return f64::NAN; }
HarmonicMeanNegative(val) ==
    Lt(val, Zero(1))

\* sum += 1.0 / val
HarmonicMeanUpdate(s, val) ==
    Add(s, Div(Fin(1, 1), val))

\* if count > 0.0 { count / sum } else { f64::NAN }
HarmonicMeanResult(c, s) ==
    IF Gt(c, Zero(1)) THEN Div(c, s) ELSE NaN

-----------------------------------------------------------------------------
(* state *)

VARIABLES
    seq,     \* the values the caller's iterator produces, in order
    op,      \* the operation being run, "none" before the first call
    pc,      \* "idle", "fold" (abs_min, abs_max), "loop" (the means), "done"
    pos,     \* number of elements pulled from the iterator by this call
    acc,     \* running extreme of abs_min / abs_max
    count,   \* count of mean, geometric_mean, harmonic_mean
    mean,    \* running mean of mean
    sum,     \* sum of geometric_mean / harmonic_mean
    result,  \* the value returned by this call, None until it returns
    prev     \* operation and result of the call before this one

vars == <<seq, op, pc, pos, acc, count, mean, sum, result, prev>>

\* the doctests' values and every special class of f64
Values ==
    {NaN, Inf(1), Inf(-1), Zero(1), Zero(-1), Fin(-2, 1), Fin(2, 1), Fin(3, 1)}

Inputs ==
    UNION {[1..n -> Values] : n \in 0..MaxLen}

None ==
    [k |-> "none", n |-> 0, d |-> 1, r |-> 1]

NoCall ==
    [op |-> "none", result |-> None]

Init ==
    /\ seq \in Inputs
    /\ op = "none"
    /\ pc = "idle"
    /\ pos = 0
    /\ acc = Zero(1)
    /\ count = Zero(1)
    /\ mean = Zero(1)
    /\ sum = Zero(1)
    /\ result = None
    /\ prev = NoCall

\* a call consumes a freshly produced iterator over the same values; calls
\* are sequential
Enter(o) ==
    /\ pc \in {"idle", "done"}
    /\ op' = o
    /\ prev' = IF pc = "done" THEN [op |-> op, result |-> result] ELSE prev
    /\ UNCHANGED seq

\* self.next() of the iterator: Some(seq[pos + 1]) or None
HasNext ==
    pos < Len(seq)

Item ==
    seq[pos + 1]

-----------------------------------------------------------------------------
(* abs_min *)

\* match self.next() { None => f64::NAN, Some(init) => ...fold(init.abs(), ..) }
AbsMinCall ==
    /\ Enter("abs_min")
    /\ IF Len(seq) = 0
       THEN pos' = 0 /\ acc' = Zero(1) /\ pc' = "done" /\ result' = NaN
       ELSE pos' = 1 /\ acc' = AbsMinInit(seq[1]) /\ pc' = "fold"
            /\ result' = None
    /\ count' = Zero(1) /\ mean' = Zero(1) /\ sum' = Zero(1)

\* one step of self.map(|x| x.borrow().abs()).fold(..)
AbsMinStep ==
    /\ op = "abs_min" /\ pc = "fold" /\ HasNext
    /\ acc' = AbsMinFold(acc, abs(Item))
    /\ pos' = pos + 1
    /\ UNCHANGED <<seq, op, pc, count, mean, sum, result, prev>>

\* mutant: the fold stops as soon as its accumulator is not-a-number
AbsMinReturn_OnNaN ==
    /\ op = "abs_min" /\ pc = "fold" /\ (~HasNext \/ acc.k = "nan")
    /\ result' = acc
    /\ pc' = "done"
    /\ UNCHANGED <<seq, op, pos, acc, count, mean, sum, prev>>

\* the iterator is exhausted: the fold yields its accumulator
AbsMinReturn ==
    /\ op = "abs_min" /\ pc = "fold" /\ ~HasNext
    /\ result' = acc
    /\ pc' = "done"
    /\ UNCHANGED <<seq, op, pos, acc, count, mean, sum, prev>>

(* abs_max *)

AbsMaxCall ==
    /\ Enter("abs_max")
    /\ IF Len(seq) = 0
       THEN pos' = 0 /\ acc' = Zero(1) /\ pc' = "done" /\ result' = NaN
       ELSE pos' = 1 /\ acc' = AbsMaxInit(seq[1]) /\ pc' = "fold"
            /\ result' = None
    /\ count' = Zero(1) /\ mean' = Zero(1) /\ sum' = Zero(1)

AbsMaxStep ==
    /\ op = "abs_max" /\ pc = "fold" /\ HasNext
    /\ acc' = AbsMaxFold(acc, abs(Item))
    /\ pos' = pos + 1
    /\ UNCHANGED <<seq, op, pc, count, mean, sum, result, prev>>

AbsMaxReturn ==
    /\ op = "abs_max" /\ pc = "fold" /\ ~HasNext
    /\ result' = acc
    /\ pc' = "done"
    /\ UNCHANGED <<seq, op, pos, acc, count, mean, sum, prev>>

(* mean *)

\* let mut count = 0.0; let mut mean = 0.0; on a fresh iterator
MeanCall ==
    /\ Enter("mean")
    /\ pos' = 0
    /\ count' = Zero(1) /\ mean' = Zero(1) /\ sum' = Zero(1)
    /\ acc' = Zero(1)
    /\ result' = None
    /\ pc' = "loop"

\* for x in self { count += 1.0; mean += (x.borrow() - mean) / count; }
MeanStep ==
    /\ op = "mean" /\ pc = "loop" /\ HasNext
    /\ count' = Add(count, Fin(1, 1))
    /\ mean' = MeanUpdate(mean, Item, count')
    /\ pos' = pos + 1
    /\ UNCHANGED <<seq, op, pc, acc, sum, result, prev>>

MeanReturn ==
    /\ op = "mean" /\ pc = "loop" /\ ~HasNext
    /\ result' = MeanResult(count, mean)
    /\ pc' = "done"
    /\ UNCHANGED <<seq, op, pos, acc, count, mean, sum, prev>>

(* geometric_mean *)

\* let mut count = 0.0; let mut sum = 0.0; on a fresh iterator
GeometricMeanCall ==
    /\ Enter("geometric_mean")
    /\ pos' = 0
    /\ count' = Zero(1) /\ mean' = Zero(1) /\ sum' = Zero(1)
    /\ acc' = Zero(1)
    /\ result' = None
    /\ pc' = "loop"

\* for x in self { count += 1.0; sum += x.borrow().ln(); }
GeometricMeanStep ==
    /\ op = "geometric_mean" /\ pc = "loop" /\ HasNext
    /\ count' = Add(count, Fin(1, 1))
    /\ sum' = GeometricMeanUpdate(sum, Item)
    /\ pos' = pos + 1
    /\ UNCHANGED <<seq, op, pc, acc, mean, result, prev>>

GeometricMeanReturn ==
    /\ op = "geometric_mean" /\ pc = "loop" /\ ~HasNext
    /\ result' = GeometricMeanResult(count, sum)
    /\ pc' = "done"
    /\ UNCHANGED <<seq, op, pos, acc, count, mean, sum, prev>>

(* harmonic_mean *)

\* let mut count = 0.0; let mut sum = 0.0; on a fresh iterator
HarmonicMeanCall ==
    /\ Enter("harmonic_mean")
    /\ pos' = 0
    /\ count' = Zero(1) /\ mean' = Zero(1) /\ sum' = Zero(1)
    /\ acc' = Zero(1)
    /\ result' = None
    /\ pc' = "loop"

\* for x in self { count += 1.0; let val = *x.borrow();
\*                 if val < 0f64 { return f64::NAN; } sum += 1.0 / val; }
HarmonicMeanStep ==
    /\ op = "harmonic_mean" /\ pc = "loop" /\ HasNext
    /\ count' = Add(count, Fin(1, 1))
    /\ pos' = pos + 1
    /\ IF HarmonicMeanNegative(Item)
       THEN result' = NaN /\ pc' = "done" /\ UNCHANGED sum
       ELSE sum' = HarmonicMeanUpdate(sum, Item) /\ UNCHANGED <<result, pc>>
    /\ UNCHANGED <<seq, op, acc, mean, prev>>

HarmonicMeanReturn ==
    /\ op = "harmonic_mean" /\ pc = "loop" /\ ~HasNext
    /\ result' = HarmonicMeanResult(count, sum)
    /\ pc' = "done"
    /\ UNCHANGED <<seq, op, pos, acc, count, mean, sum, prev>>

Next ==
    \/ AbsMinCall \/ AbsMinStep \/ AbsMinReturn
    \/ AbsMaxCall \/ AbsMaxStep \/ AbsMaxReturn
    \/ MeanCall \/ MeanStep \/ MeanReturn
    \/ GeometricMeanCall \/ GeometricMeanStep \/ GeometricMeanReturn
    \/ HarmonicMeanCall \/ HarmonicMeanStep \/ HarmonicMeanReturn

Spec ==
    Init /\ [][Next]_vars

TypeOK ==
    /\ pos \in 0..Len(seq)
    /\ pc \in {"idle", "fold", "loop", "done"}
    /\ (pc = "done") = (result # None)

-----------------------------------------------------------------------------
(* vocabulary of the properties *)

Ops ==
    {"abs_min", "abs_max", "mean", "geometric_mean", "harmonic_mean"}

Done(o) ==
    op = o /\ pc = "done"

HasNaN(s) ==
    \E i \in DOMAIN s : s[i].k = "nan"

\* strictly less than zero: -inf or a finite value below zero (not -0.0)
Negative(x) ==
    \/ x.k = "inf" /\ x.n = -1
    \/ x.k = "fin" /\ x.n < 0

HasNegative(s) ==
    \E i \in DOMAIN s : Negative(s[i])

HasZero(s) ==
    \E i \in DOMAIN s : s[i].k = "zero"

\* a <= b on f64
Le(a, b) ==
    /\ a.k # "nan" /\ b.k # "nan"
    /\ ~Lt(b, a)

\* index of the first strictly negative element, 0 when there is none
FirstNegative(s) ==
    IF HasNegative(s)
    THEN CHOOSE i \in DOMAIN s :
            Negative(s[i]) /\ \A j \in 1..(i - 1) : ~Negative(s[j])
    ELSE 0

AbsSet(s) ==
    {abs(s[i]) : i \in DOMAIN s}

MinAbs(s) ==
    CHOOSE v \in AbsSet(s) : \A w \in AbsSet(s) : Le(v, w)

MaxAbs(s) ==
    CHOOSE v \in AbsSet(s) : \A w \in AbsSet(s) : Le(w, v)

\* the first n elements are zeros or finite values
FinitePrefix(s, n) ==
    \A i \in 1..n : s[i].k \in {"zero", "fin"}

\* exact sum of the first n elements (the finite members of Values are whole
\* numbers)
RECURSIVE PrefixSum(_, _)
PrefixSum(s, n) ==
    IF n = 0 THEN 0 ELSE PrefixSum(s, n - 1) + Num(s[n])

-----------------------------------------------------------------------------
(* properties *)

\* C1: each of the five operations returns not-a-number on an empty
\* sequence.
C1_EmptyIsNaN ==
    (pc = "done" /\ seq = <<>>) => result.k = "nan"

C1_Witness ==
    /\ seq = <<>>
    /\ Done("harmonic_mean")
    /\ prev.op = "mean"
    /\ prev.result.k = "nan"

\* C2: a sequence with a not-a-number element at any position makes each of
\* the five operations return not-a-number, and once a not-a-number has been
\* consumed the accumulator stays not-a-number.
C2_NaNPropagates ==
    /\ (pc = "done" /\ HasNaN(seq)) => result.k = "nan"
    /\ (pc \in {"fold", "loop"} /\ HasNaN(SubSeq(seq, 1, pos))) =>
          CASE op \in {"abs_min", "abs_max"} -> acc.k = "nan"
            [] op = "mean" -> mean.k = "nan"
            [] op \in {"geometric_mean", "harmonic_mean"} -> sum.k = "nan"

C2_Witness ==
    /\ Len(seq) = 3
    /\ seq[1].k = "nan"
    /\ Negative(seq[2])
    /\ seq[3] = Inf(1)
    /\ Done("abs_min")
    /\ result.k = "nan"

\* C3: geometric_mean of a sequence with at least one zero and no negative
\* element is exactly 0.0.  (Sequences with a not-a-number element are the
\* case of C2 and are left out, which only narrows the statement.)
C3_ZeroGivesZero ==
    (/\ Done("geometric_mean")
     /\ HasZero(seq)
     /\ ~HasNegative(seq)
     /\ ~HasNaN(seq)) =>
        result.k = "zero"

\* what geometric_mean does keep of the zero rule: with no negative, no
\* not-a-number and no positive infinity, a zero makes the result +0.0
GeometricMeanZeroRule ==
    (/\ Done("geometric_mean")
     /\ HasZero(seq)
     /\ ~HasNegative(seq)
     /\ ~HasNaN(seq)
     /\ \A i \in DOMAIN seq : seq[i] # Inf(1)) =>
        result = Zero(1)

\* C4: harmonic_mean of a sequence with at least one zero and no negative
\* element is exactly 0.0.  (Sequences with a not-a-number element are the
\* case of C2 and are left out, which only narrows the statement.)
C4_ZeroGivesZero ==
    (/\ Done("harmonic_mean")
     /\ HasZero(seq)
     /\ ~HasNegative(seq)
     /\ ~HasNaN(seq)) =>
        result.k = "zero"

\* what harmonic_mean does keep of the zero rule: with no negative, no
\* not-a-number and no -0.0, a zero makes the result +0.0
HarmonicMeanZeroRule ==
    (/\ Done("harmonic_mean")
     /\ HasZero(seq)
     /\ ~HasNegative(seq)
     /\ ~HasNaN(seq)
     /\ \A i \in DOMAIN seq : seq[i] # Zero(-1)) =>
        result = Zero(1)

\* C5: a strictly negative element at any position makes geometric_mean and
\* harmonic_mean return not-a-number, whatever the other elements are.
C5_NegativeIsNaN ==
    (/\ pc = "done"
     /\ op \in {"geometric_mean", "harmonic_mean"}
     /\ HasNegative(seq)) =>
        result.k = "nan"

C5_Witness ==
    /\ Done("geometric_mean")
    /\ seq = <<Zero(1), Fin(3, 1), Fin(-2, 1)>>
    /\ result.k = "nan"
    /\ prev.op = "harmonic_mean"
    /\ prev.result.k = "nan"

\* C6: for a non-empty sequence without not-a-number, abs_min is less than
\* or equal to abs_max, each computed by its own call over the same values.
C6_MinLeMax ==
    (Len(seq) > 0 /\ ~HasNaN(seq)) =>
        /\ (Done("abs_max") /\ prev.op = "abs_min") => Le(prev.result, result)
        /\ (Done("abs_min") /\ prev.op = "abs_max") => Le(result, prev.result)

C6_Witness ==
    /\ Len(seq) = 3
    /\ ~HasNaN(seq)
    /\ HasNegative(seq)
    /\ Done("abs_max")
    /\ prev.op = "abs_min"
    /\ Lt(prev.result, result)

\* C7: for a non-empty sequence without not-a-number, abs_min returns the
\* smallest and abs_max the largest absolute value of the elements, and the
\* result is never negative.
C7_AbsExtremes ==
    (Len(seq) > 0 /\ ~HasNaN(seq)) =>
        /\ Done("abs_min") => result = MinAbs(seq) /\ Sgn(result) = 1
        /\ Done("abs_max") => result = MaxAbs(seq) /\ Sgn(result) = 1

C7_Witness ==
    /\ Len(seq) = 3
    /\ seq[1] = Fin(-2, 1)
    /\ seq[2] = Fin(3, 1)
    /\ Done("abs_min")
    /\ result = Fin(2, 1)
    /\ prev.op = "abs_max"
    /\ prev.result = Fin(3, 1)

\* C8: harmonic_mean returns not-a-number on consuming the first strictly
\* negative element and pulls no element after it.
C8_ShortCircuit ==
    (op = "harmonic_mean" /\ HasNegative(seq)) =>
        /\ pos <= FirstNegative(seq)
        /\ (pos = FirstNegative(seq)) => (pc = "done" /\ result.k = "nan")
        /\ (pc = "done") => (pos = FirstNegative(seq))

C8_Witness ==
    /\ Done("harmonic_mean")
    /\ Len(seq) = 3
    /\ FirstNegative(seq) = 2
    /\ seq[3].k = "fin"
    /\ pos = 2

\* C9: while mean folds finite values, count is the number k of elements
\* folded and the running mean is exactly their sum divided by k; the result
\* for a non-empty sequence of finite values is the arithmetic mean.
C9_Welford ==
    (op = "mean" /\ pc \in {"loop", "done"}) =>
        /\ count = Fin(pos, 1)
        /\ FinitePrefix(seq, pos) =>
              /\ mean.k \in {"zero", "fin"}
              /\ Num(mean) * pos = PrefixSum(seq, pos) * mean.d
              /\ (pc = "done" /\ pos > 0) => result = mean

C9_Witness ==
    /\ Done("mean")
    /\ seq = <<Zero(1), Fin(3, 1), Fin(-2, 1)>>
    /\ result = Fin(1, 3)

\* C10: abs_min, abs_max, mean and geometric_mean return only after every
\* element has been pulled, one at a time; a call whose iterator has
\* signalled end returns with a value in its next step.
C10_ConsumesAll ==
    /\ [](pc = "done" /\ op # "harmonic_mean" => pos = Len(seq))
    /\ [][(pc \in {"fold", "loop"}) =>
            /\ pos' \in {pos, pos + 1}
            /\ (pos' = pos) => (pc' = "done")
            /\ (pos = Len(seq)) => (pc' = "done" /\ result' # None)]_vars

C10_Witness ==
    /\ Done("geometric_mean")
    /\ Len(seq) = 3
    /\ Negative(seq[1])
    /\ pos = 3
    /\ prev.op = "harmonic_mean"

====
